---- MODULE Spec2Model ----
(***************************************************************************)
(* A model of snip_tsv.py: the command line tool that reads a delimited    *)
(* table, crops it between two marker values of one column and writes it   *)
(* back, or plots two of its columns.                                      *)
(*                                                                         *)
(* Python values are records [t, n, s]: t is the Python type, n the        *)
(* numeric value of an int, a float or a bool, s the content of a str (and *)
(* "nan" for the float not-a-number).  An exception in flight is a value   *)
(* of type "raise" whose s names the exception class.  An Optional[...] is *)
(* a record [some, val].  A text file is the sequence of its rows, each    *)
(* the sequence of its fields as csv.reader splits them.                   *)
(***************************************************************************)
EXTENDS Integers, Sequences, FiniteSets, TLC

VARIABLES pc, args, out, data, opts, result, calls

vars == <<pc, args, out, data, opts, result, calls>>

\* ---------------------------------------------------------------- bounds

\* Longest input file, in rows.
MaxRows == 2
\* Widest input row, in fields.
MaxCols == 2
\* Longest table handed to crop directly, in rows.
MaxCropRows == 3

\* ---------------------------------------------------------- Python values

IntV(k) == [t |-> "int", n |-> k, s |-> ""]
FloatV(k) == [t |-> "float", n |-> k, s |-> ""]
NaN == [t |-> "float", n |-> 0, s |-> "nan"]
BoolV(b) == [t |-> "bool", n |-> IF b THEN 1 ELSE 0, s |-> ""]
StrV(x) == [t |-> "str", n |-> 0, s |-> x]
None == [t |-> "NoneType", n |-> 0, s |-> ""]
Raise(e) == [t |-> "raise", n |-> 0, s |-> e]

IsRaise(v) == v.t = "raise"
IsNaN(v) == v.t = "float" /\ v.s = "nan"
IsNumber(v) == v.t \in {"int", "float", "bool"}

Some(x) == [some |-> TRUE, val |-> x]
NoneStr == [some |-> FALSE, val |-> ""]
NoneSeq == [some |-> FALSE, val |-> <<>>]
NoneIdx == [some |-> FALSE, val |-> 0]

Min(a, b) == IF a <= b THEN a ELSE b

\* An equality that also compares the types.
PyEqStrict(a, b) == a.t = b.t /\ ~IsNaN(a) /\ ~IsNaN(b) /\ a.n = b.n /\ a.s = b.s

\* a == b of Python: numbers (bool included) compare by value whatever their
\* type, nan equals nothing, a str equals only an equal str, None only None.
PyEq(a, b) ==
  IF IsNumber(a) /\ IsNumber(b)
  THEN ~IsNaN(a) /\ ~IsNaN(b) /\ a.n = b.n
  ELSE a.t = b.t /\ a.s = b.s

\* isinstance(entry, (int, float)): bool is a subclass of int.
IsInstanceIntFloat(v) == v.t \in {"int", "float", "bool"}

\* sequence[i] of Python, 0-based, negative i counting from the end.
InRange(seq, i) == -Len(seq) <= i /\ i < Len(seq)
Index(seq, i) == IF i >= 0 THEN seq[i + 1] ELSE seq[Len(seq) + i + 1]

\* Variants of the slice: the end row included; nothing when the start is
\* None; the rows between the two bounds when the end is before the start.
PySliceEndInclusive(seq, lo, hi) ==
  LET a == IF lo.some THEN Min(lo.val, Len(seq)) ELSE 0
      b == IF hi.some THEN Min(hi.val + 1, Len(seq)) ELSE Len(seq)
  IN IF a >= b THEN <<>> ELSE SubSeq(seq, a + 1, b)

PySliceFromFoundOnly(seq, lo, hi) ==
  LET a == IF lo.some THEN Min(lo.val, Len(seq)) ELSE Len(seq)
      b == IF hi.some THEN Min(hi.val, Len(seq)) ELSE Len(seq)
  IN IF a >= b THEN <<>> ELSE SubSeq(seq, a + 1, b)

PySliceSwapped(seq, lo, hi) ==
  LET a == IF lo.some THEN Min(lo.val, Len(seq)) ELSE 0
      b == IF hi.some THEN Min(hi.val, Len(seq)) ELSE Len(seq)
  IN IF a >= b THEN SubSeq(seq, b + 1, a) ELSE SubSeq(seq, a + 1, b)

\* sequence[lo:hi] of Python for lo, hi that are None or not negative.
PySlice(seq, lo, hi) ==
  LET a == IF lo.some THEN Min(lo.val, Len(seq)) ELSE 0
      b == IF hi.some THEN Min(hi.val, Len(seq)) ELSE Len(seq)
  IN IF a >= b THEN <<>> ELSE SubSeq(seq, a + 1, b)

\* ------------------------------------------------------------- the coercer

Digits == <<"0", "1", "2", "3", "4", "5", "6", "7", "8", "9">>
IntStr(k) == Digits[k + 1]
FloatStr(k) == IntStr(k) \o ".0"
Quote(s) == "'" \o s \o "'"

\* The contents of the str values of the model.
Words == {"x", "a b", "1", "", "1/0"}
\* Texts that parse as a bare name: ast.literal_eval refuses them with a
\* ValueError (malformed node), not a SyntaxError.
BareNames == {"x", "nan", "NaN", "inf"}
\* Texts that parse as an expression that is no literal: ValueError too.
NonLiterals == {"1/0"}

\* ast.literal_eval on the texts of the model; every other text of the
\* model ("a b", "", "'x") is no Python expression: SyntaxError.
LiteralEval(s) ==
  IF \E k \in 0..9 : s = IntStr(k)
    THEN IntV(CHOOSE k \in 0..9 : s = IntStr(k))
  ELSE IF \E k \in 0..9 : s = FloatStr(k)
    THEN FloatV(CHOOSE k \in 0..9 : s = FloatStr(k))
  ELSE IF s = "True" THEN BoolV(TRUE)
  ELSE IF s = "False" THEN BoolV(FALSE)
  ELSE IF s = "None" THEN None
  ELSE IF \E w \in Words : s = Quote(w)
    THEN StrV(CHOOSE w \in Words : s = Quote(w))
  ELSE IF s \in BareNames \cup NonLiterals THEN Raise("ValueError")
  ELSE Raise("SyntaxError")

Lower(s) == IF s \in {"nan", "NaN"} THEN "nan" ELSE s

coerce(s) ==
  IF ~s.some THEN None
  ELSE LET r == LiteralEval(s.val)
       IN IF r = Raise("SyntaxError") THEN LiteralEval(Quote(s.val))
          ELSE IF r = Raise("ValueError")
            THEN IF Lower(s.val) = "nan" THEN NaN ELSE r
          ELSE r

\* ------------------------------------------------------------------ Data

Data(records, header, filename, is_numeric) ==
  [records |-> records, header |-> header, filename |-> filename,
   is_numeric |-> is_numeric]

NoData == Data(<<>>, NoneSeq, NoneStr, NoneSeq)

NoFig == [x |-> <<>>, y |-> <<>>]

Return(d) == [exc |-> "", data |-> d, fig |-> NoFig]
Raised(e) == [exc |-> e, data |-> NoData, fig |-> NoFig]

\* ------------------------------------------------------------ the reader

\* zip(is_numeric, record): as long as the shorter of the two.
FoldRecord(is_numeric, record) ==
  [j \in 1..Min(Len(is_numeric), Len(record)) |->
     is_numeric[j] /\ IsInstanceIntFloat(record[j])]

RECURSIVE FoldRecords(_, _, _)
FoldRecords(is_numeric, records, i) ==
  IF i > Len(records) THEN is_numeric
  ELSE FoldRecords(FoldRecord(is_numeric, records[i]), records, i + 1)

\* records[0] of an empty list raises IndexError (the caller tests for it).
determine_numeric_columns(records) ==
  FoldRecords([j \in 1..Len(records[1]) |-> TRUE], records, 1)

CoerceRow(row) == [j \in 1..Len(row) |-> coerce(Some(row[j]))]

\* The first exception of coercing the cells in reading order, "" if none.
RECURSIVE FirstRaise(_, _, _)
FirstRaise(rows, i, j) ==
  IF i > Len(rows) THEN ""
  ELSE IF j > Len(rows[i]) THEN FirstRaise(rows, i + 1, 1)
  ELSE IF IsRaise(rows[i][j]) THEN rows[i][j].s
  ELSE FirstRaise(rows, i, j + 1)

read_file(text, name, has_header) ==
  IF has_header /\ text = <<>> THEN Raised("StopIteration")
  ELSE LET header == IF has_header THEN Some(Head(text)) ELSE NoneSeq
           rest == IF has_header THEN Tail(text) ELSE text
           records == [i \in 1..Len(rest) |-> CoerceRow(rest[i])]
           exc == FirstRaise(records, 1, 1)
       IN IF exc # "" THEN Raised(exc)
          ELSE IF records = <<>> THEN Raised("IndexError")
          ELSE Return(Data(records, header, Some(name),
                           Some(determine_numeric_columns(records))))

\* ----------------------------------------------------------- the cropper

CropOptions(col, start, end) == [col |-> col, start |-> start, end |-> end]

NoOpts == CropOptions(0, None, None)

\* The for loop of crop from row i (0-based) on: the first row whose cell
\* of column col equals start, the first whose cell equals end; a row
\* without that column raises IndexError.
RECURSIVE CropLoop(_, _, _, _, _)
CropLoop(records, o, i, start_idx, end_idx) ==
  IF i >= Len(records) THEN [exc |-> "", start_idx |-> start_idx, end_idx |-> end_idx]
  ELSE LET record == records[i + 1]
       IN IF ~InRange(record, o.col)
          THEN [exc |-> "IndexError", start_idx |-> start_idx, end_idx |-> end_idx]
          ELSE LET cell == Index(record, o.col)
                   s == IF PyEq(cell, o.start) /\ ~start_idx.some
                        THEN Some(i) ELSE start_idx
                   e == IF o.end # None /\ PyEq(cell, o.end) /\ ~end_idx.some
                        THEN Some(i) ELSE end_idx
               IN CropLoop(records, o, i + 1, s, e)

cropKeepFlags(d, o) ==
  LET found == CropLoop(d.records, o, 0, NoneIdx, NoneIdx)
  IN IF found.exc # "" THEN Raised(found.exc)
     ELSE Return(Data(PySlice(d.records, found.start_idx, found.end_idx),
                      d.header, d.filename, d.is_numeric))

crop(d, o) ==
  LET found == CropLoop(d.records, o, 0, NoneIdx, NoneIdx)
  IN IF found.exc # "" THEN Raised(found.exc)
     ELSE Return(Data(PySlice(d.records, found.start_idx, found.end_idx),
                      d.header, d.filename, NoneSeq))

\* ------------------------------------------------------------- the writer

\* The field csv.writer writes for a value: "" for None, str(value) else.
CsvField(v) ==
  IF v.t = "int" THEN IntStr(v.n)
  ELSE IF IsNaN(v) THEN "nan"
  ELSE IF v.t = "float" THEN FloatStr(v.n)
  ELSE IF v.t = "bool" THEN (IF v.n = 1 THEN "True" ELSE "False")
  ELSE IF v.t = "str" THEN v.s
  ELSE ""

CsvRow(record) == [j \in 1..Len(record) |-> CsvField(record[j])]

\* The rows write_records appends to the stream.
write_records(d) ==
  (IF d.header.some THEN <<d.header.val>> ELSE <<>>)
    \o [i \in 1..Len(d.records) |-> CsvRow(d.records[i])]

\* ------------------------------------------------------------ the plotter

PlotOptions(x, y) == [x |-> x, y |-> y]

plot(d, po) ==
  IF \E i \in 1..Len(d.records) :
       ~InRange(d.records[i], po.x) \/ ~InRange(d.records[i], po.y)
  THEN Raised("IndexError")
  ELSE [exc |-> "", data |-> NoData,
        fig |-> [x |-> [i \in 1..Len(d.records) |-> Index(d.records[i], po.x)],
                 y |-> [i \in 1..Len(d.records) |-> Index(d.records[i], po.y)]]]

\* --------------------------------------------------- the command line run

\* Defaults.PLOT_X, Defaults.PLOT_Y.
PLOT_X == 0
PLOT_Y == 1

StdoutName == "<stdout>"
InName == "in.tsv"

\* The name of the stream argparse.FileType("w") opens for an --out-file.
OutName(a) == IF a.out_file = "-" THEN StdoutName ELSE a.out_file

\* The output destinations: the file --out-file names ("old" with its
\* earlier content, "empty" once truncated, "text" with rows, "image"),
\* the rows written to standard output, and whether a window was shown.
OutState(file) == [file |-> file, rows |-> <<>>, stdout |-> <<>>, shown |-> FALSE]

\* The test of handler: copts.start is not None.
TakesCropPathOnEnd(o) == o.end # None

TakesCropPath(o) == o.start # None

Fail(e) ==
  /\ pc' = "failed"
  /\ result' = Raised(e)

\* main: parse_args opens the files; FileType("w") truncates or creates
\* the output file then, before the handler runs.
ParseArgs ==
  /\ pc = "main"
  /\ pc' = "handler"
  /\ out' = IF OutName(args) = StdoutName THEN out ELSE [out EXCEPT !.file = "empty"]
  /\ UNCHANGED <<args, data, opts, result, calls>>

\* handler, lines 117-122: the options, the markers coerced start first.
MakeOptions ==
  /\ pc = "handler"
  /\ LET start == coerce(args.crop_start)
         end == coerce(args.crop_end)
     IN IF IsRaise(start) THEN Fail(start.s) /\ UNCHANGED opts
        ELSE IF IsRaise(end) THEN Fail(end.s) /\ UNCHANGED opts
        ELSE /\ opts' = CropOptions(args.crop_col, start, end)
             /\ pc' = "read"
             /\ UNCHANGED result
  /\ UNCHANGED <<args, out, data, calls>>

\* handler, line 124.
ReadFile ==
  /\ pc = "read"
  /\ calls' = Append(calls, "read_file")
  /\ LET r == read_file(args.in_file, InName, args.header)
     IN IF r.exc # "" THEN Fail(r.exc) /\ UNCHANGED data
        ELSE /\ data' = r.data
             /\ pc' = "dispatch"
             /\ UNCHANGED result
  /\ UNCHANGED <<args, out, opts>>

\* handler, lines 126-127.
Crop ==
  /\ pc = "dispatch"
  /\ TakesCropPath(opts)
  /\ calls' = Append(calls, "crop")
  /\ LET r == crop(data, opts)
     IN IF r.exc # "" THEN Fail(r.exc)
        ELSE /\ result' = r
             /\ pc' = "write_records"
  /\ UNCHANGED <<args, out, data, opts>>

\* handler, line 128: the rows go to the stream parse_args opened.
WriteRecords ==
  /\ pc = "write_records"
  /\ calls' = Append(calls, "write_records")
  /\ out' = IF OutName(args) = StdoutName
            THEN [out EXCEPT !.stdout = @ \o write_records(result.data)]
            ELSE [out EXCEPT !.file = "text", !.rows = @ \o write_records(result.data)]
  /\ pc' = "done"
  /\ UNCHANGED <<args, data, opts, result>>

\* handler, line 130.
Plot ==
  /\ pc = "dispatch"
  /\ ~TakesCropPath(opts)
  /\ calls' = Append(calls, "plot")
  /\ LET r == plot(data, PlotOptions(args.plot_x, args.plot_y))
     IN IF r.exc # "" THEN Fail(r.exc)
        ELSE /\ result' = r
             /\ pc' = "write_figure"
  /\ UNCHANGED <<args, out, data, opts>>

\* handler, line 131: a window for the standard streams, an image file else.
WriteFigure ==
  /\ pc = "write_figure"
  /\ calls' = Append(calls, "write_figure")
  /\ out' = IF OutName(args) \in {"<stdout>", "<stderr>"}
            THEN [out EXCEPT !.shown = TRUE]
            ELSE [out EXCEPT !.file = "image", !.rows = <<>>]
  /\ pc' = "done"
  /\ UNCHANGED <<args, data, opts, result>>

\* The fields of the input files of the runs: an integer, and an expression
\* that is no literal.
RunTokens == {"1", "1/0"}

RowsOf(tokens) == UNION {[1..n -> tokens] : n \in 1..MaxCols}

TextsOf(tokens) == UNION {[1..n -> RowsOf(tokens)] : n \in 0..MaxRows}

Args(in_file, header, crop_col, crop_start, crop_end, out_file) ==
  [in_file |-> in_file, header |-> header, plot_x |-> PLOT_X, plot_y |-> PLOT_Y,
   crop_col |-> crop_col, crop_start |-> crop_start, crop_end |-> crop_end,
   out_file |-> out_file]

NoArgs == Args(<<>>, FALSE, 0, NoneStr, NoneStr, "-")

Init ==
  /\ pc = "main"
  /\ \E in_file \in TextsOf(RunTokens), header \in BOOLEAN,
        crop_col \in 0..(MaxCols - 1),
        crop_start \in {NoneStr, Some("1"), Some("None"), Some("1/0")},
        crop_end \in {NoneStr, Some("1")},
        out_file \in {"-", "out.tsv"} :
       args = Args(in_file, header, crop_col, crop_start, crop_end, out_file)
  /\ out = OutState("old")
  /\ data = NoData
  /\ opts = NoOpts
  /\ result = Return(NoData)
  /\ calls = <<>>

Next ==
  \/ ParseArgs
  \/ MakeOptions
  \/ ReadFile
  \/ Crop
  \/ WriteRecords
  \/ Plot
  \/ WriteFigure

Spec == Init /\ [][Next]_vars

\* ------------------------------------------------- crop called on its own

\* The cells of the tables handed to crop: numbers of three types with one
\* value (1, 1.0, True), another integer, a string and the not-a-number.
CropValues == {IntV(1), IntV(2), FloatV(1), BoolV(TRUE), StrV("x"), NaN}

\* Rows of one column, and rows of two whose second column holds the cell.
CropRows ==
  {<<v>> : v \in CropValues} \cup {<<StrV("x"), v>> : v \in {IntV(1), FloatV(1)}}

CropTables == UNION {[1..n -> CropRows] : n \in 0..MaxCropRows}

\* The table as read_file builds it: header, file name and numeric flags.
TableOf(records) ==
  Data(records, Some(<<"a", "b">>), Some(InName),
       IF records = <<>> THEN NoneSeq ELSE Some(determine_numeric_columns(records)))

InitCrop ==
  /\ pc = "crop_call"
  /\ \E records \in CropTables : data = TableOf(records)
  /\ \E col \in {-1, 0, 1}, start \in CropValues, end \in CropValues \cup {None} :
       opts = CropOptions(col, start, end)
  /\ args = NoArgs
  /\ out = OutState("old")
  /\ result = Return(NoData)
  /\ calls = <<>>

CropCall ==
  /\ pc = "crop_call"
  /\ result' = crop(data, opts)
  /\ calls' = Append(calls, "crop")
  /\ pc' = "crop_done"
  /\ UNCHANGED <<args, out, data, opts>>

NextCrop == CropCall

SpecCrop == InitCrop /\ [][NextCrop]_vars

\* ------------------------------------------------------ crop: the claims

CropDone == pc = "crop_done"

\* Every row of the input has the designated column.
AllHaveCol == \A i \in 1..Len(data.records) : InRange(data.records[i], opts.col)

CropCell(i) == Index(data.records[i], opts.col)

\* The rows (1-based) whose designated cell equals marker m as Python's ==.
MatchRows(m) == {i \in 1..Len(data.records) : PyEq(CropCell(i), m)}

First(S) == CHOOSE i \in S : \A j \in S : i <= j

\* The rows from row s to row e - 1 (1-based), none when e <= s.
RowsBetween(s, e) ==
  [k \in 1..(IF e > s THEN e - s ELSE 0) |-> data.records[s + k - 1]]

\* The row the crop ends before: the first row matching end, or one past
\* the last row when end is None or matches nothing.
EndRow ==
  IF opts.end = None \/ MatchRows(opts.end) = {}
  THEN Len(data.records) + 1 ELSE First(MatchRows(opts.end))

\* C1: when some row's designated cell equals options.start, crop returns
\* the rows from the first such row (inclusive) to the first row whose cell
\* equals options.end (exclusive), in order, and to the last row when
\* options.end is None or equals no row.
C1_CropSlice ==
  (CropDone /\ AllHaveCol /\ MatchRows(opts.start) # {})
    => /\ result.exc = ""
       /\ result.data.records = RowsBetween(First(MatchRows(opts.start)), EndRow)

C1_Witness ==
  /\ CropDone /\ AllHaveCol
  /\ opts.end # None
  /\ MatchRows(opts.start) # {} /\ MatchRows(opts.end) # {}
  /\ First(MatchRows(opts.start)) = 2
  /\ First(MatchRows(opts.end)) = 3
  /\ Len(result.data.records) = 1

\* C2: when options.start equals no row's designated cell, crop raises
\* nothing and its result starts at row 0 of the input: the rows before the
\* first end match, the full table when there is none.
C2_StartAbsent ==
  (CropDone /\ AllHaveCol /\ MatchRows(opts.start) = {})
    => /\ result.exc = ""
       /\ result.data.records = RowsBetween(1, EndRow)

C2_Witness ==
  /\ CropDone /\ AllHaveCol
  /\ MatchRows(opts.start) = {}
  /\ Len(data.records) >= 2
  /\ result.exc = ""
  /\ result.data.records = data.records

\* Equality of a cell and a marker told by cases: two numbers (int, float
\* or bool) of one numeric value, neither the not-a-number, or two strings
\* of one content, or None twice.
SameValue(c, m) ==
  \/ /\ c.t \in {"int", "float", "bool"} /\ m.t \in {"int", "float", "bool"}
     /\ c.s # "nan" /\ m.s # "nan"
     /\ c.n = m.n
  \/ c.t = "str" /\ m.t = "str" /\ c.s = m.s
  \/ c.t = "NoneType" /\ m.t = "NoneType"

ValueRows(m) == {i \in 1..Len(data.records) : SameValue(CropCell(i), m)}

\* C8, as the code has it: crop matches a cell against the markers by
\* Python's ==, under which numbers of different types and one value match
\* (1, 1.0 and True), a string matches only an equal string, and the
\* not-a-number matches nothing.
C8_MatchByValue ==
  (CropDone /\ AllHaveCol)
    => LET s == IF ValueRows(opts.start) = {} THEN 1 ELSE First(ValueRows(opts.start))
           e == IF opts.end = None \/ ValueRows(opts.end) = {}
                THEN Len(data.records) + 1 ELSE First(ValueRows(opts.end))
       IN result.data.records = RowsBetween(s, e)

C8_Witness ==
  /\ CropDone /\ AllHaveCol
  /\ opts.end = None
  /\ \A i \in 1..Len(data.records) : CropCell(i).t # opts.start.t
  /\ Len(data.records) = 2
  /\ Len(result.data.records) = 1

\* C8 as claimed: a cell and a marker of different types never match, so
\* with a start marker whose type no cell has, and no end marker, the crop
\* finds no start and returns the whole table.
C8_DistinctTypesNeverMatch ==
  (/\ CropDone /\ AllHaveCol
   /\ opts.end = None
   /\ \A i \in 1..Len(data.records) : CropCell(i).t # opts.start.t)
    => result.data.records = data.records

\* C9: crop leaves its input as it was and returns a table with the input's
\* header and source name and without numeric flags.
C9_CropFrame ==
  [][(pc = "crop_call" /\ pc' = "crop_done")
       => /\ data' = data
          /\ result'.exc = ""
               => /\ result'.data.header = data.header
                  /\ result'.data.filename = data.filename
                  /\ result'.data.is_numeric = NoneSeq]_vars

C9_Witness ==
  /\ CropDone
  /\ result.exc = ""
  /\ data.is_numeric.some /\ data.header.some /\ data.filename.some
  /\ result.data.records # data.records
  /\ result.data.header = data.header
  /\ result.data.is_numeric = NoneSeq

\* r is a run of consecutive rows of full, in their order.
Contiguous(r, full) ==
  \E a \in 1..(Len(full) + 1) :
    /\ a + Len(r) - 1 <= Len(full)
    /\ r = [k \in 1..Len(r) |-> full[a + k - 1]]

\* C10: crop raises nothing, its rows are a run of consecutive input rows
\* in their order, and there are none when the first row matching end is at
\* or before the first row matching start.
C10_EndBeforeStart ==
  (CropDone /\ AllHaveCol)
    => /\ result.exc = ""
       /\ Contiguous(result.data.records, data.records)
       /\ (/\ opts.end # None
           /\ MatchRows(opts.start) # {} /\ MatchRows(opts.end) # {}
           /\ First(MatchRows(opts.end)) <= First(MatchRows(opts.start)))
            => result.data.records = <<>>

C10_Witness ==
  /\ CropDone /\ AllHaveCol
  /\ opts.end # None
  /\ MatchRows(opts.start) # {} /\ MatchRows(opts.end) # {}
  /\ First(MatchRows(opts.end)) < First(MatchRows(opts.start))
  /\ result.exc = ""
  /\ result.data.records = <<>>

\* -------------------------------------------- read_file called on its own

\* The fields of the files read: an integer, a float, a quoted string, a
\* boolean and a bare word.
ReadTokens == {"1", "2.0", "'x'", "True", "x"}

InitRead ==
  /\ pc = "read_call"
  /\ \E in_file \in TextsOf(ReadTokens), header \in BOOLEAN :
       args = Args(in_file, header, 0, NoneStr, NoneStr, "-")
  /\ out = OutState("old")
  /\ data = NoData
  /\ opts = NoOpts
  /\ result = Return(NoData)
  /\ calls = <<>>

ReadCall ==
  /\ pc = "read_call"
  /\ result' = read_file(args.in_file, InName, args.header)
  /\ calls' = Append(calls, "read_file")
  /\ pc' = "read_done"
  /\ UNCHANGED <<args, out, data, opts>>

NextRead == ReadCall

SpecRead == InitRead /\ [][NextRead]_vars

ReadReturned == pc = "read_done" /\ result.exc = ""

\* C4: the numeric flags of the table read are as many as the cells of each
\* row, and the flag of column j is true exactly when the cell of column j
\* of every row is an int or a float (a bool being an int to isinstance).
C4_NumericFlags ==
  ReadReturned
    => LET records == result.data.records
           flags == result.data.is_numeric.val
       IN /\ result.data.is_numeric.some
          /\ \A i \in 1..Len(records) : Len(flags) = Len(records[i])
          /\ \A j \in 1..Len(flags) :
               flags[j] <=> \A i \in 1..Len(records) :
                              records[i][j].t \in {"int", "float", "bool"}

\* C6: read_file returns no table whose rows differ in length.
C6_NoRaggedTable ==
  ReadReturned
    => \A i \in 1..Len(result.data.records) :
         Len(result.data.records[i]) = Len(result.data.records[1])

\* --------------------------------------- write_records, then read_file back

HeaderNames == <<"a", "b", "c", "d">>

\* The cells of the tables written: an integer, a float and simple strings.
RoundTripValues == {IntV(1), FloatV(2), StrV("x"), StrV("a b")}

RoundTripTables ==
  UNION {[1..n -> [1..w -> RoundTripValues]] : n \in 1..MaxRows, w \in 1..MaxCols}

OutFileName == "out.tsv"

InitRoundTrip ==
  /\ pc = "rt_write"
  /\ \E records \in RoundTripTables :
       data = Data(records, Some(SubSeq(HeaderNames, 1, Len(records[1]))),
                   Some(InName), Some(determine_numeric_columns(records)))
  /\ args = NoArgs
  /\ out = OutState("empty")
  /\ opts = NoOpts
  /\ result = Return(NoData)
  /\ calls = <<>>

RoundTripWrite ==
  /\ pc = "rt_write"
  /\ out' = [out EXCEPT !.file = "text", !.rows = @ \o write_records(data)]
  /\ calls' = Append(calls, "write_records")
  /\ pc' = "rt_read"
  /\ UNCHANGED <<args, data, opts, result>>

RoundTripRead ==
  /\ pc = "rt_read"
  /\ result' = read_file(out.rows, OutFileName, TRUE)
  /\ calls' = Append(calls, "read_file")
  /\ pc' = "rt_done"
  /\ UNCHANGED <<args, out, data, opts>>

NextRoundTrip ==
  \/ RoundTripWrite
  \/ RoundTripRead

SpecRoundTrip == InitRoundTrip /\ [][NextRoundTrip]_vars

\* C5: a table of integers, floats and simple strings under a header, once
\* written by write_records and read back by read_file with has_header, is
\* the table written: the same header, the same cells of the same types.
C5_RoundTrip ==
  pc = "rt_done"
    => /\ result.exc = ""
       /\ result.data.header = data.header
       /\ result.data.records = data.records

\* ------------------------------------------- the command line run: claims

CropRoute == <<"read_file", "crop", "write_records">>
PlotRoute == <<"read_file", "plot", "write_figure">>

IsPrefix(p, q) == Len(p) <= Len(q) /\ p = SubSeq(q, 1, Len(p))

RunEnded == pc \in {"done", "failed"}

\* C3 as claimed: every run builds the table with read_file and then takes
\* exactly one of the two routes, the crop route when --crop-start was
\* given and the plot route when it was not.
C3_ExactlyOneRoute ==
  RunEnded
    => calls = IF args.crop_start.some THEN CropRoute ELSE PlotRoute

\* C3, as the code has it: the functions called are at every moment the
\* beginning of one of the two routes, read_file first; a run that returns
\* has gone through exactly one of them, the crop route when --crop-start
\* coerces to a value that is not None and the plot route when it was left
\* out or coerces to None; a run that raises has finished neither.
C3_OneRouteWhenReturned ==
  /\ IsPrefix(calls, CropRoute) \/ IsPrefix(calls, PlotRoute)
  /\ pc = "done"
       => calls = IF coerce(args.crop_start) # None THEN CropRoute ELSE PlotRoute
  /\ pc = "failed" => calls \notin {CropRoute, PlotRoute}

C3_Witness ==
  /\ pc = "done"
  /\ args.crop_start.some
  /\ args.crop_end = NoneStr
  /\ calls = CropRoute

\* C7: a run that ends in a failure leaves the output as it was before the
\* run: the output file untouched, nothing on standard output, no window.
C7_AllOrNothing ==
  pc = "failed"
    => /\ out.file = "old"
       /\ out.stdout = <<>>
       /\ ~out.shown

====
